---- MODULE Spec2Model ----
(***************************************************************************)
(* polygeohasher: the cell-set optimizer (utils.get_optimized_geohashes)   *)
(* and the polygon rasterizer (converters.polygon_to_geohashes).           *)
(*                                                                         *)
(* A geohash code is a sequence of BASE32 characters; a character is       *)
(* represented by its index 0..31 in BASE32, so "9q8" is <<9, 22, 8>>.     *)
(* A Python list of codes is represented up to the order of its entries,   *)
(* as the bag that gives every code the number of its entries.             *)
(***************************************************************************)
EXTENDS Integers, Sequences, FiniteSets, Bags, TLC

(***************************************************************************)
(* Bounds of the model.                                                    *)
(***************************************************************************)
\* largest_gh_size and smallest_gh_size range over 1..MaxLevel
MaxLevel == 3

\* gh_input_level ranges over 1..MaxInputLevel
MaxInputLevel == 4

\* the grid of the rasterizer's precision: GridWidth cells around the globe,
\* GridHeight cells from pole to pole; a cell is PixelsPerCell pixels high,
\* and the polygons are drawn on the pixels
GridWidth == 3
GridHeight == 2
PixelsPerCell == 3

(***************************************************************************)
(* utils.py: constants and string helpers                                  *)
(***************************************************************************)
\* the number of characters of BASE32 (utils.py:12), also the literal 32 of
\* the threshold at utils.py:87
AlphabetSize == 32

\* BASE32, each character by its index
BASE32 == 0 .. (AlphabetSize - 1)

Min(a, b) == IF a <= b THEN a ELSE b

\* Python's s[:n] for n >= 0: the first n characters, the whole of s when
\* s is shorter
SliceTo(s, n) == SubSeq(s, 1, Min(n, Len(s)))

\* a slip in DropLast: s[1:] for s[:-1]
DropFirst(s) == SubSeq(s, 2, Len(s))

\* Python's s[:-1]: s without its last character; "" stays ""
DropLast(s) == SubSeq(s, 1, Len(s) - 1)

\* Python's set(entries) of a list: the codes that have an entry
set(entries) == BagToSet(entries)

\* Python's len(entries) of a list: the number of entries
len(entries) == BagCardinality(entries)

\* Python's list(codes) of a set: one entry for every code
list(codes) == SetToBag(codes)

\* the 32 codes under a parent (utils.py:82)
Combinations(geohash_1up) == {Append(geohash_1up, i) : i \in BASE32}

\* a slip in ThresholdMet: percentage_error / 100 as an integer division,
\* as Python 2 computes it for an int
ThresholdMetIntegerDivision(count, pe) ==
    count >= AlphabetSize * (1 - pe \div 100)

\* utils.py:87, len(intersect) >= 32 * (1 - percentage_error / 100).  The
\* percentages of the model are integral: 32*(100 - pe)/100 is then either
\* an integer, exactly when pe is a multiple of 25, where pe/100 and the
\* product are exact floats, or at least 1/25 away from every integer, far
\* more than the rounding error.  So the float comparison with the integer
\* count agrees with the cross-multiplied integer one.
ThresholdMet(count, pe) == 100 * count >= AlphabetSize * (100 - pe)

\* a slip in MergeCondition: the threshold applies on every cycle
MergeConditionEveryCycle(combinations, working, pe, cycle) ==
    \/ combinations \subseteq working
    \/ ThresholdMet(Cardinality(combinations \cap working), pe)

\* utils.py:86-89, the condition to emit the parent instead of the code
MergeCondition(combinations, working, pe, cycle) ==
    \/ combinations \subseteq working
    \/ /\ ThresholdMet(Cardinality(combinations \cap working), pe)
       /\ cycle < 1

\* utils.py:53-58
Cutoff(largest, smallest, level) ==
    IF smallest < level
        THEN (level - smallest) + (smallest - largest)
        ELSE smallest - largest

(***************************************************************************)
(* The inputs of the optimizer                                             *)
(***************************************************************************)
\* the first k children of a parent
Kids(parent, k) == {Append(parent, i) : i \in 0 .. (k - 1)}

\* how many of the 32 siblings are present in a group of the inputs: a lone
\* code, a few, both sides of the 10% and 5% thresholds (28.8 and 30.4),
\* one short of complete, complete
GroupSizes == {1, 3, 28, 29, 30, 31, 32}

\* "", "9", "9q": the parents of the groups
GroupParents == {<< >>, <<9>>, <<9, 22>>}

\* one sibling group
OneGroupInputs == {Kids(p, k) : p \in GroupParents, k \in GroupSizes}

\* two sibling groups of one precision, under "9q" and "98"
TwoGroupInputs ==
    {Kids(<<9, 22>>, k1) \cup Kids(<<9, 8>>, k2) : k1 \in {29, 32}, k2 \in {3, 32}}

\* one child under each of the first k codes of precision 2 under "9": every
\* group holds 1 of 32, and the parents form a group of k
SpreadInputs == {{<<9, i, 0>> : i \in 0 .. (k - 1)} : k \in {29, 32}}

\* the 32 children of "9q" with the 31 siblings of "9q": "9q" is missing
\* from its group until its children merge
NestedInputs == {Kids(<<9, 22>>, 32) \cup (Kids(<<9>>, 32) \ {<<9, 22>>})}

\* mixed precision: a code together with codes under it
MixedInputs ==
    {{<<9, 22>>} \cup Kids(<<9, 22>>, k) : k \in {2, 29, 32}}
        \cup {{<<9>>, <<9, 22>>, <<9, 22, 8>>},
              {<<9>>, <<9, 22, 8>>},
              {<<9, 22>>, <<9, 22, 0>>} \cup Kids(<<9>>, 3),
              {<<9, 22, 8, 1>>, <<9, 22, 8, 2>>, <<9, 8>>}}

\* two of the 32 codes under every code "9q" + c, with a lone code "8000" or
\* with two codes under "700" and two under "701": at a threshold between 1
\* and 2 the pairs merge on the first cycle, into the complete group under
\* "9q" and into 2 of the 32 codes under "70", and "8000" does not merge
PairedInputs ==
    LET pairs == {<<9, 22, c, d>> : c \in BASE32, d \in {0, 1}}
    IN  {pairs \cup {<<8, 0, 0, 0>>},
         pairs \cup {<<7, 0, c, d>> : c \in {0, 1}, d \in {0, 1}}}

\* the distinct codes of the lists get_optimized_geohashes is called with;
\* {} is for the empty list
InputLists ==
    {{}} \cup OneGroupInputs \cup TwoGroupInputs \cup SpreadInputs
         \cup NestedInputs \cup MixedInputs \cup PairedInputs

\* lists with a code entered more than once, as in
\* test_optimization_with_duplicates: "9q0", "9q0", "9q1", "9q1", "9q2"
RepeatedLists == {list(Kids(<<9, 22>>, 3)) (+) list(Kids(<<9, 22>>, 2))}

\* the lists get_optimized_geohashes is called with
Lists == {list(codes) : codes \in InputLists} \cup RepeatedLists

Levels == 1 .. MaxLevel

InputLevels == 1 .. MaxInputLevel

\* percentage_error: 0, the values of the tests, one that lets a group of 2
\* merge and a group of 1 not (32 * 0.04 = 1.28), and one above 100
PercentageErrors == {0, 5, 10, 96, 110}

(***************************************************************************)
(* The state                                                               *)
(***************************************************************************)
VARIABLES
    \* get_optimized_geohashes: the arguments
    geohashes,                \* the list passed in
    largest_gh_size,
    smallest_gh_size,
    gh_input_level,
    percentage_error,
    forced_gh_upscale,
    \* get_optimized_geohashes: the locals
    geohashes_set,            \* the working set
    geohash_processed_check,
    processed_geohash_set,    \* the codes the running cycle has emitted
    flag,
    len_desired_reached,
    no_of_cycle,
    cutoff,
    todo,                     \* the codes the for loop has still to visit
    pc,                       \* "call", "while", "for", "done"
    returned,                 \* "nothing", "False" or "list"
    final_geohashes,          \* the returned list
    merged                    \* history: the parents the running cycle
                              \* emitted at utils.py:91

optVars ==
    << geohashes, largest_gh_size, smallest_gh_size, gh_input_level,
       percentage_error, forced_gh_upscale, geohashes_set,
       geohash_processed_check, processed_geohash_set, flag,
       len_desired_reached, no_of_cycle, cutoff, todo, pc, returned,
       final_geohashes, merged >>

args ==
    << geohashes, largest_gh_size, smallest_gh_size, gh_input_level,
       percentage_error, forced_gh_upscale >>

VARIABLES
    \* polygon_to_geohashes: the arguments
    polygon,                  \* the pixels the polygon covers
    inner,
    \* polygon_to_geohashes: the locals
    envelope,                 \* the pixels the polygon's envelope covers
    inner_geohashes,
    outer_geohashes,
    testing_geohashes,        \* the queue, oldest first
    ppc,                      \* "idle", "loop", "done"
    \* test_polygon_to_geohashes_inner_vs_outer: the sets the calls returned
    results                   \* inner -> the returned set, once returned

polyVars ==
    << polygon, inner, envelope, inner_geohashes, outer_geohashes,
       testing_geohashes, ppc, results >>

VARIABLES
    \* the caller of get_optimized_geohashes, as in
    \* test_different_precision_levels, test_percentage_error_threshold and
    \* test_optimization_with_duplicates
    previous                  \* the arguments and the result of the call
                              \* before the running one, if there was one

VARIABLES
    \* the callers in core.py, create_geohash_list and geohash_optimizer
    objects,                  \* the DataFrame objects there are, by identity
    gdf,                      \* create_geohash_list: the argument, which
                              \* is also the gdf of the Polygeohasher
    gdf_with_geohashes,       \* geohash_optimizer: the argument
    gdf_copy,                 \* the local of the running function
    df,                       \* geohash_optimizer: the local
    applied,                  \* the values Series.apply has collected
    fpc,                      \* the position in core.py
    handed                    \* history: the content of every DataFrame of
                              \* the caller when the caller passed it in or
                              \* got it back

callerVars ==
    << previous, objects, gdf, gdf_with_geohashes, gdf_copy, df, applied,
       fpc, handed >>

vars == << optVars, polyVars, callerVars >>

\* the optimizer is not running
OptIdle ==
    /\ geohashes = EmptyBag
    /\ largest_gh_size = 1
    /\ smallest_gh_size = 1
    /\ gh_input_level = 1
    /\ percentage_error = 0
    /\ forced_gh_upscale = FALSE
    /\ geohashes_set = {}
    /\ geohash_processed_check = {}
    /\ processed_geohash_set = {}
    /\ flag = TRUE
    /\ len_desired_reached = FALSE
    /\ no_of_cycle = 0
    /\ cutoff = 0
    /\ todo = {}
    /\ pc = "idle"
    /\ returned = "nothing"
    /\ final_geohashes = EmptyBag
    /\ merged = {}

\* the rasterizer is not running
PolyIdle ==
    /\ polygon = {}
    /\ inner = TRUE
    /\ envelope = {}
    /\ inner_geohashes = {}
    /\ outer_geohashes = {}
    /\ testing_geohashes = << >>
    /\ ppc = "idle"
    /\ results = << >>

\* no call has returned yet, and nothing of core.py is running
CallerIdle ==
    /\ previous = {}
    /\ objects = << >>
    /\ gdf = 0
    /\ gdf_with_geohashes = 0
    /\ gdf_copy = 0
    /\ df = 0
    /\ applied = << >>
    /\ fpc = "idle"
    /\ handed = << >>

(***************************************************************************)
(* get_optimized_geohashes, utils.py:15-113                                *)
(***************************************************************************)
\* utils.py:68-71: the flag is raised by a code of length len_desired and is
\* never lowered again
LenDesiredReached(geohash_length, len_desired, reached) ==
    IF geohash_length = len_desired \/ reached = TRUE THEN TRUE ELSE FALSE

\* a slip in LongEnough: > for >=
LongEnoughStrict(geohash_length, largest) == geohash_length > largest

\* utils.py:74
LongEnough(geohash_length, largest) == geohash_length >= largest

\* utils.py:78-80
NotProcessed(geohash, check) ==
    DropLast(geohash) \notin check /\ geohash \notin check

\* a slip in KeptCode: the code is cut whether forced_gh_upscale is set or
\* not
KeptCodeAlwaysCut(geohash, smallest, forced) ==
    IF Len(geohash) >= smallest
        THEN SliceTo(geohash, smallest)
        ELSE geohash

\* utils.py:98-104: the code a visit emits when its group does not merge
KeptCode(geohash, smallest, forced) ==
    IF Len(geohash) >= smallest /\ forced = TRUE
        THEN SliceTo(geohash, smallest)
        ELSE geohash

\* a slip in LoopEnds: == for >=
LoopEndsOnEqual(reached, cycles, limit) == reached = TRUE \/ cycles = limit

\* a slip in LoopEnds: > for >=
LoopEndsLate(reached, cycles, limit) == reached = TRUE \/ cycles > limit

\* utils.py:107
LoopEnds(reached, cycles, limit) == reached = TRUE \/ cycles >= limit

(***************************************************************************)
(* The order of the for loop at utils.py:66.  Python leaves the iteration  *)
(* order of a set open.  A visit reads and writes geohash_processed_check  *)
(* at the code and at its parent only, and all siblings of a group get the *)
(* same merge decision, so two visits can influence each other only when   *)
(* one code is the parent of the other; any other two visits give the same *)
(* state in either order.  The model therefore takes every order between a *)
(* code and the codes directly under it, and a fixed order elsewhere:      *)
(*   - while some unvisited code has its parent or a child unvisited, any  *)
(*     such code may be next; of the childless children of one parent,     *)
(*     which are interchangeable, the first in code order goes first;      *)
(*   - afterwards the unvisited codes are pairwise independent and are     *)
(*     taken in one fixed order.                                           *)
(***************************************************************************)
Precedes(a, b) ==
    \/ Len(a) < Len(b)
    \/ /\ Len(a) = Len(b)
       /\ \E i \in 1 .. Len(a) :
            a[i] < b[i] /\ \A j \in 1 .. (i - 1) : a[j] = b[j]

\* one code of a set of pairwise independent codes, the same for the same set
First(S) == CHOOSE g \in S : TRUE

HasKidIn(g, S) == \E i \in BASE32 : Append(g, i) \in S

HasParentIn(g, S) == Len(g) > 0 /\ DropLast(g) \in S

NextToVisit(unvisited, working) ==
    LET under == {g \in unvisited : HasParentIn(g, unvisited)}
        tied == under \cup {DropLast(g) : g \in under}
        twin(g, h) ==
            /\ h # g
            /\ Len(h) = Len(g)
            /\ DropLast(h) = DropLast(g)
            /\ ~HasKidIn(h, working)
    IN  IF tied = {}
            THEN {First(unvisited)}
            ELSE {g \in tied :
                    HasKidIn(g, working)
                        \/ ~\E h \in tied : twin(g, h) /\ Precedes(h, g)}

\* a slip in EmptyList: the guard never holds
EmptyListMissed(entries) == len(entries) < 0

\* utils.py:47
EmptyList(entries) == len(entries) = 0

\* utils.py:42-58
Call ==
    /\ pc = "call"
    /\ IF EmptyList(geohashes)
          THEN /\ returned' = "False"
               /\ pc' = "done"
               /\ cutoff' = cutoff
          ELSE /\ returned' = returned
               /\ pc' = "while"
               /\ cutoff' = Cutoff(largest_gh_size, smallest_gh_size,
                                   gh_input_level)
    /\ UNCHANGED << args, geohashes_set, geohash_processed_check,
                    processed_geohash_set, flag, len_desired_reached,
                    no_of_cycle, todo, final_geohashes, merged >>
    /\ UNCHANGED << polyVars, callerVars >>

\* utils.py:60-64: the loop test holds, the cycle's sets are cleared
BeginCycle ==
    /\ pc = "while"
    /\ flag = TRUE
    /\ processed_geohash_set' = {}
    /\ geohash_processed_check' = {}
    /\ merged' = {}
    /\ todo' = geohashes_set
    /\ pc' = "for"
    /\ UNCHANGED << args, geohashes_set, flag, len_desired_reached,
                    no_of_cycle, cutoff, returned, final_geohashes >>
    /\ UNCHANGED << polyVars, callerVars >>

\* a slip in Visit: the else of utils.py:94 is missing, so a visit that
\* emits the parent goes on to emit the code as well
VisitFallsThrough(geohash) ==
    LET geohash_length == Len(geohash)
        geohash_1up == DropLast(geohash)
        combinations == Combinations(geohash_1up)
        kept == KeptCode(geohash, smallest_gh_size, forced_gh_upscale)
    IN  /\ len_desired_reached' =
              LenDesiredReached(geohash_length, largest_gh_size,
                                len_desired_reached)
        /\ IF LongEnough(geohash_length, largest_gh_size)
              /\ NotProcessed(geohash, geohash_processed_check)
              THEN IF MergeCondition(combinations, geohashes_set,
                                     percentage_error, no_of_cycle)
                      THEN /\ processed_geohash_set' =
                                processed_geohash_set
                                    \cup {geohash_1up, kept}
                           /\ geohash_processed_check' =
                                geohash_processed_check
                                    \cup {geohash_1up, geohash}
                           /\ merged' = merged \cup {geohash_1up}
                      ELSE /\ geohash_processed_check' =
                                geohash_processed_check \cup {geohash}
                           /\ processed_geohash_set' =
                                processed_geohash_set \cup {kept}
                           /\ merged' = merged
              ELSE UNCHANGED << processed_geohash_set,
                                geohash_processed_check, merged >>
        /\ todo' = todo \ {geohash}

\* utils.py:66-104: one iteration of the for loop
Visit(geohash) ==
    LET geohash_length == Len(geohash)
        geohash_1up == DropLast(geohash)
        combinations == Combinations(geohash_1up)
    IN  /\ len_desired_reached' =
              LenDesiredReached(geohash_length, largest_gh_size,
                                len_desired_reached)
        /\ IF LongEnough(geohash_length, largest_gh_size)
              /\ NotProcessed(geohash, geohash_processed_check)
              THEN IF MergeCondition(combinations, geohashes_set,
                                     percentage_error, no_of_cycle)
                      THEN /\ processed_geohash_set' =
                                processed_geohash_set \cup {geohash_1up}
                           /\ geohash_processed_check' =
                                geohash_processed_check \cup {geohash_1up}
                           /\ merged' = merged \cup {geohash_1up}
                      ELSE /\ geohash_processed_check' =
                                geohash_processed_check \cup {geohash}
                           /\ processed_geohash_set' =
                                processed_geohash_set
                                    \cup {KeptCode(geohash, smallest_gh_size,
                                                   forced_gh_upscale)}
                           /\ merged' = merged
              ELSE UNCHANGED << processed_geohash_set,
                                geohash_processed_check, merged >>
        /\ todo' = todo \ {geohash}

ForStep ==
    /\ pc = "for"
    /\ todo # {}
    /\ \E geohash \in NextToVisit(todo, geohashes_set) : Visit(geohash)
    /\ UNCHANGED << args, geohashes_set, flag, no_of_cycle, cutoff, pc,
                    returned, final_geohashes >>
    /\ UNCHANGED << polyVars, callerVars >>

\* a slip in EndCycle: the clear of utils.py:109 is missing, and the emitted
\* codes are added to the working set
EndCycleKeepsWorkingSet ==
    /\ pc = "for"
    /\ todo = {}
    /\ no_of_cycle' = no_of_cycle + 1
    /\ flag' = IF LoopEnds(len_desired_reached, no_of_cycle + 1, cutoff)
                  THEN FALSE
                  ELSE flag
    /\ geohashes_set' = geohashes_set \cup processed_geohash_set
    /\ pc' = "while"
    /\ UNCHANGED << args, geohash_processed_check, processed_geohash_set,
                    len_desired_reached, cutoff, todo, returned,
                    final_geohashes, merged >>
    /\ UNCHANGED << polyVars, callerVars >>

\* utils.py:106-110: the for loop is over
EndCycle ==
    /\ pc = "for"
    /\ todo = {}
    /\ no_of_cycle' = no_of_cycle + 1
    /\ flag' = IF LoopEnds(len_desired_reached, no_of_cycle + 1, cutoff)
                  THEN FALSE
                  ELSE flag
    /\ geohashes_set' = processed_geohash_set
    /\ pc' = "while"
    /\ UNCHANGED << args, geohash_processed_check, processed_geohash_set,
                    len_desired_reached, cutoff, todo, returned,
                    final_geohashes, merged >>
    /\ UNCHANGED << polyVars, callerVars >>

\* utils.py:60, 112-113: the loop test fails, the list is returned; the set
\* of a set at utils.py:112 is a copy of it
Return ==
    /\ pc = "while"
    /\ flag # TRUE
    /\ final_geohashes' = list(geohashes_set)
    /\ returned' = "list"
    /\ pc' = "done"
    /\ UNCHANGED << args, geohashes_set, geohash_processed_check,
                    processed_geohash_set, flag, len_desired_reached,
                    no_of_cycle, cutoff, todo, merged >>
    /\ UNCHANGED << polyVars, callerVars >>

\* utils.py:42-45, 50-51: the locals of a call before the test of utils.py:47
Enters ==
    /\ geohashes_set = set(geohashes)
    /\ geohash_processed_check = {}
    /\ processed_geohash_set = {}
    /\ flag = TRUE
    /\ len_desired_reached = FALSE
    /\ no_of_cycle = 0
    /\ cutoff = 0
    /\ todo = {}
    /\ pc = "call"
    /\ returned = "nothing"
    /\ final_geohashes = EmptyBag
    /\ merged = {}

\* the same for a further call: the list passed in and the locals
EntersWith(entries) ==
    /\ geohashes' = entries
    /\ geohashes_set' = set(entries)
    /\ geohash_processed_check' = {}
    /\ processed_geohash_set' = {}
    /\ flag' = TRUE
    /\ len_desired_reached' = FALSE
    /\ no_of_cycle' = 0
    /\ cutoff' = 0
    /\ todo' = {}
    /\ pc' = "call"
    /\ returned' = "nothing"
    /\ final_geohashes' = EmptyBag
    /\ merged' = {}

Init ==
    /\ geohashes \in Lists
    /\ largest_gh_size \in Levels
    /\ smallest_gh_size \in Levels
    /\ gh_input_level \in InputLevels
    /\ percentage_error \in PercentageErrors
    /\ forced_gh_upscale \in BOOLEAN
    /\ Enters
    /\ PolyIdle
    /\ CallerIdle

Next == Call \/ BeginCycle \/ ForStep \/ EndCycle \/ Return

Spec == Init /\ [][Next]_vars

\* the lists of the calls that are followed to their end: the empty list,
\* the lists of up to 5 entries, of one or of mixed precision, and the
\* complete groups
ShortLists == {entries \in Lists : len(entries) <= 5 \/ len(entries) = 32}

FairInit ==
    /\ geohashes \in ShortLists
    /\ largest_gh_size \in Levels
    /\ smallest_gh_size \in Levels
    /\ gh_input_level \in InputLevels
    /\ percentage_error \in PercentageErrors
    /\ forced_gh_upscale \in BOOLEAN
    /\ Enters
    /\ PolyIdle
    /\ CallerIdle

\* a call with the fairness of a running function: it takes its next step
FairSpec == FairInit /\ [][Next]_vars /\ WF_vars(Next)

(***************************************************************************)
(* Two calls of get_optimized_geohashes, the second with one argument      *)
(* changed, as the tests make them to compare the results:                 *)
(* test_different_precision_levels (test_utils.py:159-182) lowers          *)
(* largest_gh_size, test_percentage_error_threshold (test_utils.py:103-129)*)
(* changes percentage_error, test_optimization_with_duplicates             *)
(* (test_utils.py:268-282) passes a list with codes entered twice.         *)
(***************************************************************************)
\* the distinct codes of the lists of the first call: the short lists of
\* mixed precision, a few codes of one group at two precisions, a complete
\* group, one code under each of the 32 codes of a group, and two of the 32
\* codes under every code "9q" + c and "9r" + c with a lone code "8000"
CompareInputs ==
    {codes \in MixedInputs : Cardinality(codes) <= 5}
        \cup {Kids(<<9>>, 3), Kids(<<9, 22>>, 3), Kids(<<9, 22>>, 32)}
        \cup {{<<9, i, 0>> : i \in BASE32}}
        \cup {{<<9, b, c, d>> : b \in {22, 23}, c \in BASE32, d \in {0, 1}}
                 \cup {<<8, 0, 0, 0>>}}

CompareLists == {list(codes) : codes \in CompareInputs} \cup RepeatedLists

\* lists with the distinct codes of a list and other numbers of entries: one
\* code entered once more, every code entered once
Rearranged(entries) ==
    {entries (+) list({First(set(entries))}), list(set(entries))}
        \ {entries}

\* the percentage the tests go on to after pe
HigherErrors(pe) ==
    {higher \in PercentageErrors :
        /\ higher > pe
        /\ \A other \in PercentageErrors : other > pe => other >= higher}

\* the arguments and the result of the call that has returned
Outcome ==
    [geohashes |-> geohashes,
     largest_gh_size |-> largest_gh_size,
     smallest_gh_size |-> smallest_gh_size,
     gh_input_level |-> gh_input_level,
     percentage_error |-> percentage_error,
     forced_gh_upscale |-> forced_gh_upscale,
     returned |-> returned,
     final_geohashes |-> final_geohashes]

\* after the first call has returned, the second call
CallAgain(entries, largest, pe) ==
    /\ pc = "done"
    /\ previous = {}
    /\ previous' = {Outcome}
    /\ largest_gh_size' = largest
    /\ percentage_error' = pe
    /\ UNCHANGED << smallest_gh_size, gh_input_level, forced_gh_upscale >>
    /\ EntersWith(entries)
    /\ UNCHANGED << objects, gdf, gdf_with_geohashes, gdf_copy, df, applied,
                    fpc, handed >>
    /\ UNCHANGED polyVars

\* test_utils.py:164-176
CallWithLowerLargest ==
    /\ largest_gh_size > 1
    /\ CallAgain(geohashes, largest_gh_size - 1, percentage_error)

\* test_utils.py:108-122
CallWithHigherError ==
    \E pe \in HigherErrors(percentage_error) :
        CallAgain(geohashes, largest_gh_size, pe)

\* test_utils.py:270-277
CallWithRepeats ==
    \E entries \in Rearranged(geohashes) :
        CallAgain(entries, largest_gh_size, percentage_error)

\* the same call made again, as with the list of test_utils.py:208-219; the
\* for loop of utils.py:66 may visit the codes in another order
CallWithSameArguments ==
    CallAgain(geohashes, largest_gh_size, percentage_error)

CompareInit ==
    /\ geohashes \in CompareLists
    /\ largest_gh_size \in Levels
    /\ smallest_gh_size \in Levels
    /\ gh_input_level \in InputLevels
    /\ percentage_error \in PercentageErrors
    /\ forced_gh_upscale \in BOOLEAN
    /\ Enters
    /\ PolyIdle
    /\ CallerIdle

CompareNext ==
    \/ Call
    \/ BeginCycle
    \/ ForStep
    \/ EndCycle
    \/ Return
    \/ CallWithLowerLargest
    \/ CallWithHigherError
    \/ CallWithRepeats
    \/ CallWithSameArguments

CompareSpec == CompareInit /\ [][CompareNext]_vars

(***************************************************************************)
(* The grid and the geometry of the rasterizer.  At the one precision of   *)
(* a call the codes and the cells of the grid correspond one to one, and a *)
(* code is represented by its cell <<column, row>>: columns run west to    *)
(* east around the globe, rows south to north.  A pixel <<column, y>> is   *)
(* one cell wide and 1/PixelsPerCell of a cell high; a polygon, its        *)
(* envelope and the box of a cell are the sets of pixels they cover, all   *)
(* taken as closed regions.                                                *)
(***************************************************************************)
Columns == 0 .. (GridWidth - 1)

Rows == 0 .. (GridHeight - 1)

PixelRows == 0 .. (GridHeight * PixelsPerCell - 1)

Cells == Columns \X Rows

Abs(n) == IF n < 0 THEN -n ELSE n

Rect(x0, x1, y0, y1) == {<<x, y>> : x \in x0 .. x1, y \in y0 .. y1}

\* the columns a rectangle spans, first and last
Spans == {c \in Columns \X Columns : c[1] <= c[2]}

\* the pixel rows where the lower rectangle starts, where it ends and the
\* upper one starts, and where the upper one ends
Cuts ==
    LET borders == 0 .. (GridHeight * PixelsPerCell)
    IN  {h \in borders \X borders \X borders : h[1] < h[2] /\ h[2] <= h[3]}

\* two spans have a column in common
Joined(a, b) == ~(a[2] < b[1] \/ b[2] < a[1])

\* the polygons of the calls: a rectangle, or a rectangle with a second one
\* on top of it, the two sharing a piece of an edge (an L, a T, a step)
Polygons ==
    {Rect(t[1][1], t[1][2], t[3][1], t[3][2] - 1)
        \cup Rect(t[2][1], t[2][2], t[3][2], t[3][3] - 1) :
            t \in {u \in Spans \X Spans \X Cuts : Joined(u[1], u[2])}}

\* converters.py:17-39, the box of a code
geohash_to_polygon(geo) ==
    {<<geo[1], y>> :
        y \in (geo[2] * PixelsPerCell) .. (geo[2] * PixelsPerCell
                                            + PixelsPerCell - 1)}

\* polygon.envelope, converters.py:65: the bounding rectangle
Envelope(region) ==
    LET xs == {p[1] : p \in region}
        ys == {p[2] : p \in region}
        lo(S) == CHOOSE m \in S : \A n \in S : m <= n
        hi(S) == CHOOSE m \in S : \A n \in S : m >= n
    IN  Rect(lo(xs), hi(xs), lo(ys), hi(ys))

\* shapely's a.contains(b) for a box b: every point of the box is in a
Contains(region, box) == box \subseteq region

\* shapely's a.intersects(b): the closed regions share a point, be it only
\* on their boundaries; two closed pixels share a point when they are equal
\* or neighbours, diagonal ones included
Intersects(region, box) ==
    \E p \in region, q \in box :
        Abs(p[1] - q[1]) <= 1 /\ Abs(p[2] - q[2]) <= 1

\* the sum over the pixels of a region of twice the coordinate of the
\* pixel's centre
RECURSIVE Moment(_, _)
Moment(region, axis) ==
    IF region = {}
        THEN 0
        ELSE LET p == CHOOSE q \in region : TRUE
             IN  (2 * p[axis] + 1) + Moment(region \ {p}, axis)

\* converters.py:66, 69: geohash.encode of polygon.centroid, the cell that
\* holds the centre of area; a point on the border of two cells belongs to
\* the eastern or northern one
CentroidCell(region) ==
    LET n == Cardinality(region)
    IN  << Moment(region, 1) \div (2 * n),
           Moment(region, 2) \div (2 * n * PixelsPerCell) >>

\* geohash.neighbors, converters.py:97: west and east, then the three to the
\* north, then the three to the south; the columns wrap around the globe,
\* the rows end at the poles
Neighbors(geo) ==
    LET west == (geo[1] + GridWidth - 1) % GridWidth
        east == (geo[1] + 1) % GridWidth
        row(y) == << <<west, y>>, <<geo[1], y>>, <<east, y>> >>
    IN  << <<west, geo[2]>>, <<east, geo[2]>> >>
            \o (IF geo[2] + 1 < GridHeight THEN row(geo[2] + 1) ELSE << >>)
            \o (IF geo[2] - 1 >= 0 THEN row(geo[2] - 1) ELSE << >>)

(***************************************************************************)
(* polygon_to_geohashes, converters.py:42-104                              *)
(***************************************************************************)
\* a slip in Unvisited: only the accepted codes are looked up
UnvisitedUnlessAccepted(current_geohash, accepted, rejected) ==
    current_geohash \notin accepted

\* converters.py:73-76: the popped code is in neither set
Unvisited(current_geohash, accepted, rejected) ==
    current_geohash \notin accepted /\ current_geohash \notin rejected

\* a slip in Condition: the pre-filter lets every code pass
ConditionOnEveryCell(bounds, current_polygon, mode) == TRUE

\* converters.py:80-84, the pre-filter against the envelope
Condition(bounds, current_polygon, mode) ==
    IF mode
        THEN Contains(bounds, current_polygon)
        ELSE Intersects(bounds, current_polygon)

\* converters.py:87-96, the test against the polygon itself
Accepts(region, current_polygon, mode) ==
    IF mode
        THEN Contains(region, current_polygon)
        ELSE Intersects(region, current_polygon)

\* a slip in NeighborsToPut: only an accepted code has its neighbours put
\* on the queue
NeighborsOfAccepted(current_geohash, accepted, rejected) ==
    IF current_geohash \in accepted
        THEN SelectSeq(Neighbors(current_geohash),
                       LAMBDA neighbor : neighbor \notin accepted
                                             /\ neighbor \notin rejected)
        ELSE << >>

\* converters.py:97-102: the neighbours of a classified code that go on the
\* queue, given the sets after its classification
NeighborsToPut(current_geohash, accepted, rejected) ==
    SelectSeq(Neighbors(current_geohash),
              LAMBDA neighbor : neighbor \notin accepted
                                    /\ neighbor \notin rejected)

\* a slip in ReturnedSet: outer_geohashes is returned for inner=False
ReturnedSetByMode(accepted, rejected, mode) ==
    IF mode THEN accepted ELSE rejected

\* converters.py:104
ReturnedSet(accepted, rejected, mode) == accepted

\* converters.py:62-69: the state of a call before its loop
Enter(region, mode) ==
    /\ polygon' = region
    /\ inner' = mode
    /\ envelope' = Envelope(region)
    /\ inner_geohashes' = {}
    /\ outer_geohashes' = {}
    /\ testing_geohashes' = << CentroidCell(region) >>
    /\ ppc' = "loop"

\* converters.py:71-102: one iteration of the while loop
PolyStep ==
    /\ ppc = "loop"
    /\ testing_geohashes # << >>
    /\ LET current_geohash == Head(testing_geohashes)
           current_polygon == geohash_to_polygon(current_geohash)
           classify ==
               /\ Unvisited(current_geohash, inner_geohashes,
                            outer_geohashes)
               /\ Condition(envelope, current_polygon, inner)
           accept == Accepts(polygon, current_polygon, inner)
           accepted == IF classify /\ accept
                          THEN inner_geohashes \cup {current_geohash}
                          ELSE inner_geohashes
           rejected == IF classify /\ ~accept
                          THEN outer_geohashes \cup {current_geohash}
                          ELSE outer_geohashes
       IN  /\ inner_geohashes' = accepted
           /\ outer_geohashes' = rejected
           /\ testing_geohashes' =
                IF classify
                    THEN Tail(testing_geohashes)
                            \o NeighborsToPut(current_geohash, accepted,
                                              rejected)
                    ELSE Tail(testing_geohashes)
    /\ UNCHANGED << polygon, inner, envelope, ppc, results >>
    /\ UNCHANGED << optVars, callerVars >>

\* a slip in PolyReturn: the loop does not test the queue and waits in
\* testing_geohashes.get() for a code that never comes
PolyReturnWaits ==
    /\ ppc = "loop"
    /\ testing_geohashes = << >>
    /\ UNCHANGED vars

\* converters.py:71, 104: the queue is empty, the call returns
PolyReturn ==
    /\ ppc = "loop"
    /\ testing_geohashes = << >>
    /\ results' = results @@
                    (inner :> ReturnedSet(inner_geohashes, outer_geohashes,
                                          inner))
    /\ ppc' = "returned"
    /\ UNCHANGED << polygon, inner, envelope, inner_geohashes,
                    outer_geohashes, testing_geohashes >>
    /\ UNCHANGED << optVars, callerVars >>

\* test_converters.py:160-161: after the call with inner=True, the call with
\* inner=False on the same polygon
SecondCall ==
    /\ ppc = "returned"
    /\ inner = TRUE
    /\ Enter(polygon, FALSE)
    /\ UNCHANGED results
    /\ UNCHANGED << optVars, callerVars >>

\* test_converters.py:158-160: the first call, with inner=True, at its loop
PolyInit ==
    /\ polygon \in Polygons
    /\ inner = TRUE
    /\ envelope = Envelope(polygon)
    /\ inner_geohashes = {}
    /\ outer_geohashes = {}
    /\ testing_geohashes = << CentroidCell(polygon) >>
    /\ ppc = "loop"
    /\ results = << >>
    /\ OptIdle
    /\ CallerIdle

PolyNext == PolyStep \/ PolyReturn \/ SecondCall

PolySpec == PolyInit /\ [][PolyNext]_vars

\* the same with the fairness of a running call: the loop takes its next
\* iteration, and returns when its test fails; nothing makes the caller
\* call again
PolyFairSpec ==
    PolyInit /\ [][PolyNext]_vars /\ WF_vars(PolyStep) /\ WF_vars(PolyReturn)

(***************************************************************************)
(* core.py: create_geohash_list and geohash_optimizer, called one after    *)
(* the other on the GeoDataFrame of a Polygeohasher (polygeohasher.py:52,  *)
(* 84, 129).  A DataFrame is an object with an identity, its position in   *)
(* objects; its content is the sequence of its rows, a row is a record of  *)
(* its index label and its columns.  A variable that holds a DataFrame     *)
(* holds its identity, so two variables can name one object and a write    *)
(* through one is seen through the other.                                  *)
(***************************************************************************)
\* a slip in copy: the copy is the object itself
copyShares(heap, id) == id

\* DataFrame.copy, core.py:62, 131, 142: the identity of the new object
copy(heap, id) == Len(heap) + 1

\* the objects after content has been written to the object id, a new one
\* or one there was
Allocate(heap, id, content) ==
    IF id > Len(heap)
        THEN Append(heap, content)
        ELSE [heap EXCEPT ![id] = content]

\* frame[column] = values, core.py:63, 132
assign(frame, column, values) ==
    [i \in 1 .. Len(frame) |-> frame[i] @@ (column :> values[i])]

\* frame.drop(column, axis=1), core.py:66, 142
drop(frame, column) ==
    [i \in 1 .. Len(frame) |->
        [c \in (DOMAIN frame[i]) \ {column} |-> frame[i][c]]]

\* the code of a cell of the grid: the cells are the codes under "9q"
Encode(cell) == <<9, 22, cell[1] + GridWidth * cell[2]>>

\* the values of a cell of a column that are not codes: False, and the NaN
\* explode puts in for an empty list
FalseValue == <<-1>>

NaN == <<-2>>

\* a geohash string
IsCode(value) == \A i \in 1 .. Len(value) : value[i] \in BASE32

\* the codes of a set, in the order of Precedes
RECURSIVE Sorted(_)
Sorted(codes) ==
    IF codes = {}
        THEN << >>
        ELSE << First(codes) >> \o Sorted(codes \ {First(codes)})

\* what explode makes of one cell: a scalar stays, an empty list gives one
\* NaN, a list gives its elements.  The list returned at utils.py:113 holds
\* every code once; the order of its elements is taken to be that of
\* Precedes
Exploded(cell) ==
    IF cell.returned = "False"
        THEN << FalseValue >>
        ELSE IF len(cell.final_geohashes) = 0
            THEN << NaN >>
            ELSE Sorted(set(cell.final_geohashes))

\* frame.explode(column), core.py:144: a row for every element, each with
\* the index label and the other columns of the row it comes from
explode(frame, column) ==
    LET rows(i) ==
            LET elements == Exploded(frame[i][column])
            IN  [k \in 1 .. Len(elements) |->
                    [c \in DOMAIN frame[i] |->
                        IF c = column THEN elements[k] ELSE frame[i][c]]]
        upto[i \in 0 .. Len(frame)] ==
            IF i = 0 THEN << >> ELSE upto[i - 1] \o rows(i)
    IN  upto[Len(frame)]

\* a slip in drop_duplicates: the last row of equal ones is kept
drop_duplicates_keep_last(frame, column) ==
    LET upto[i \in 0 .. Len(frame)] ==
            IF i = 0
                THEN << >>
                ELSE IF \E j \in (i + 1) .. Len(frame) :
                            frame[j][column] = frame[i][column]
                    THEN upto[i - 1]
                    ELSE Append(upto[i - 1], frame[i])
    IN  upto[Len(frame)]

\* frame.drop_duplicates(column), core.py:145: the first row of equal ones
\* is kept
drop_duplicates(frame, column) ==
    LET upto[i \in 0 .. Len(frame)] ==
            IF i = 0
                THEN << >>
                ELSE IF \E j \in 1 .. (i - 1) :
                            frame[j][column] = frame[i][column]
                    THEN upto[i - 1]
                    ELSE Append(upto[i - 1], frame[i])
    IN  upto[Len(frame)]

\* the polygons of the rows: a cell, a pixel of it (smaller than any cell),
\* two cells side by side, and a column of cells from pole to pole
FramePolygons ==
    [cell |-> Rect(0, 0, 0, PixelsPerCell - 1),
     pixel |-> Rect(0, 0, 0, 0),
     pair |-> Rect(0, 1, 0, PixelsPerCell - 1),
     column |-> Rect(0, 0, 0, GridHeight * PixelsPerCell - 1)]

\* the geometry columns of the GeoDataFrames
GeoFrames ==
    {<< FramePolygons.cell >>,
     << FramePolygons.pixel >>,
     << FramePolygons.column, FramePolygons.cell >>,
     << FramePolygons.pixel, FramePolygons.pair >>,
     << FramePolygons.pair, FramePolygons.column, FramePolygons.cell >>}

\* the row Series.apply has come to
Current == Len(applied) + 1

\* core.py:62: create_geohash_list is called on the gdf of the Polygeohasher
CreateGeohashList ==
    /\ fpc = "caller"
    /\ gdf_with_geohashes = 0
    /\ \E mode \in BOOLEAN : inner' = mode
    /\ gdf_copy' = copy(objects, gdf)
    /\ objects' = Allocate(objects, gdf_copy', objects[gdf])
    /\ applied' = << >>
    /\ fpc' = "create"
    /\ UNCHANGED << polygon, envelope, inner_geohashes, outer_geohashes,
                    testing_geohashes, ppc, results >>
    /\ UNCHANGED << previous, gdf, gdf_with_geohashes, df, handed >>
    /\ UNCHANGED optVars

\* core.py:63-65: apply calls polygon_to_geohashes on the geometry of the
\* next row
ApplyGeometry ==
    /\ fpc = "create"
    /\ Current <= Len(objects[gdf_copy])
    /\ Enter(objects[gdf_copy][Current].geometry, inner)
    /\ results' = << >>
    /\ fpc' = "polygon"
    /\ UNCHANGED << previous, objects, gdf, gdf_with_geohashes, gdf_copy, df,
                    applied, handed >>
    /\ UNCHANGED optVars

\* core.py:64: the list of the returned set is the value of the row
StoreGeohashList ==
    /\ fpc = "polygon"
    /\ ppc = "returned"
    /\ applied' = Append(applied, list({Encode(cell) : cell \in results[inner]}))
    /\ ppc' = "idle"
    /\ fpc' = "create"
    /\ UNCHANGED << polygon, inner, envelope, inner_geohashes,
                    outer_geohashes, testing_geohashes, results >>
    /\ UNCHANGED << previous, objects, gdf, gdf_with_geohashes, gdf_copy, df,
                    handed >>
    /\ UNCHANGED optVars

\* core.py:63, 66-67: the column is written to gdf_copy, drop makes a new
\* object without the geometry, and that is returned to the caller
ReturnGeohashList ==
    /\ fpc = "create"
    /\ Current > Len(objects[gdf_copy])
    /\ LET written == Allocate(objects, gdf_copy,
                               assign(objects[gdf_copy], "geohash_list",
                                      applied))
           dropped == Len(written) + 1
       IN  /\ objects' = Allocate(written, dropped,
                                  drop(written[gdf_copy], "geometry"))
           /\ gdf_with_geohashes' = dropped
           /\ handed' = handed @@ (dropped :> objects'[dropped])
    /\ gdf_copy' = 0
    /\ applied' = << >>
    /\ fpc' = "caller"
    /\ UNCHANGED << previous, gdf, df >>
    /\ UNCHANGED << optVars, polyVars >>

\* core.py:131: geohash_optimizer is called on what create_geohash_list
\* returned
GeohashOptimizer ==
    /\ fpc = "caller"
    /\ gdf_with_geohashes # 0
    /\ df = 0
    /\ largest_gh_size' \in Levels
    /\ smallest_gh_size' \in Levels
    /\ gh_input_level' \in InputLevels
    /\ percentage_error' \in PercentageErrors
    /\ forced_gh_upscale' \in BOOLEAN
    /\ gdf_copy' = copy(objects, gdf_with_geohashes)
    /\ objects' = Allocate(objects, gdf_copy', objects[gdf_with_geohashes])
    /\ applied' = << >>
    /\ fpc' = "optimizer"
    /\ UNCHANGED << geohashes, geohashes_set, geohash_processed_check,
                    processed_geohash_set, flag, len_desired_reached,
                    no_of_cycle, cutoff, todo, pc, returned, final_geohashes,
                    merged >>
    /\ UNCHANGED << previous, gdf, gdf_with_geohashes, df, handed >>
    /\ UNCHANGED polyVars

\* core.py:132-141: apply calls get_optimized_geohashes on the list of the
\* next row
ApplyOptimizer ==
    /\ fpc = "optimizer"
    /\ Current <= Len(objects[gdf_copy])
    /\ EntersWith(objects[gdf_copy][Current].geohash_list)
    /\ fpc' = "row"
    /\ UNCHANGED << largest_gh_size, smallest_gh_size, gh_input_level,
                    percentage_error, forced_gh_upscale >>
    /\ UNCHANGED << previous, objects, gdf, gdf_with_geohashes, gdf_copy, df,
                    applied, handed >>
    /\ UNCHANGED polyVars

\* core.py:133: what the call returned, False or a list, is the value of
\* the row
StoreOptimized ==
    /\ fpc = "row"
    /\ pc = "done"
    /\ applied' = Append(applied, [returned |-> returned,
                                   final_geohashes |-> final_geohashes])
    /\ pc' = "idle"
    /\ fpc' = "optimizer"
    /\ UNCHANGED << args, geohashes_set, geohash_processed_check,
                    processed_geohash_set, flag, len_desired_reached,
                    no_of_cycle, cutoff, todo, returned, final_geohashes,
                    merged >>
    /\ UNCHANGED << previous, objects, gdf, gdf_with_geohashes, gdf_copy, df,
                    handed >>
    /\ UNCHANGED polyVars

\* core.py:132, 142-144: the column is written to gdf_copy, drop makes a
\* new object without the lists and copy one more, data; the DataFrame made
\* of data is not written to, and explode makes the new object df
Explode ==
    /\ fpc = "optimizer"
    /\ Current > Len(objects[gdf_copy])
    /\ LET written == Allocate(objects, gdf_copy,
                               assign(objects[gdf_copy],
                                      "optimized_geohash_list", applied))
           dropped == Len(written) + 1
           without == Allocate(written, dropped,
                               drop(written[gdf_copy], "geohash_list"))
           data == copy(without, dropped)
           copied == Allocate(without, data, without[dropped])
           exploded == Len(copied) + 1
       IN  /\ objects' = Allocate(copied, exploded,
                                  explode(copied[data],
                                          "optimized_geohash_list"))
           /\ df' = exploded
    /\ fpc' = "exploded"
    /\ UNCHANGED << previous, gdf, gdf_with_geohashes, gdf_copy, applied,
                    handed >>
    /\ UNCHANGED << optVars, polyVars >>

\* core.py:145-146: the duplicates are dropped from df in place, and df is
\* returned to the caller
DropDuplicates ==
    /\ fpc = "exploded"
    /\ objects' = Allocate(objects, df,
                           drop_duplicates(objects[df],
                                           "optimized_geohash_list"))
    /\ handed' = handed @@ (df :> objects'[df])
    /\ fpc' = "returned"
    /\ UNCHANGED << previous, gdf, gdf_with_geohashes, gdf_copy, df, applied >>
    /\ UNCHANGED << optVars, polyVars >>

\* a Polygeohasher has been made of a GeoDataFrame (polygeohasher.py:52):
\* its gdf is the caller's object
FrameInit ==
    /\ \E geometries \in GeoFrames :
        objects = << [i \in 1 .. Len(geometries) |->
                        [index |-> i, geometry |-> geometries[i]]] >>
    /\ gdf = 1
    /\ gdf_with_geohashes = 0
    /\ gdf_copy = 0
    /\ df = 0
    /\ applied = << >>
    /\ fpc = "caller"
    /\ handed = (1 :> objects[1])
    /\ previous = {}
    /\ OptIdle
    /\ PolyIdle

FrameNext ==
    \/ CreateGeohashList
    \/ ApplyGeometry
    \/ PolyStep
    \/ PolyReturn
    \/ StoreGeohashList
    \/ ReturnGeohashList
    \/ GeohashOptimizer
    \/ ApplyOptimizer
    \/ Call
    \/ BeginCycle
    \/ ForStep
    \/ EndCycle
    \/ Return
    \/ StoreOptimized
    \/ Explode
    \/ DropDuplicates

FrameSpec == FrameInit /\ [][FrameNext]_vars

(***************************************************************************)
(* Properties of get_optimized_geohashes                                   *)
(***************************************************************************)
Returned == pc = "done" /\ returned = "list"

\* the for loop of the running cycle has visited every code
CycleOver == pc = "for" /\ todo = {}

\* the parents of the codes of a set
ParentsOf(S) == {DropLast(g) : g \in S}

\* how many of the 32 codes under a parent a set holds
Present(parent, S) == Cardinality(Combinations(parent) \cap S)

\* every code of the list has the length gh_input_level
SinglePrecision == \A g \in set(geohashes) : Len(g) = gh_input_level

\* a set holds the code or a prefix of it
Covered(g, S) == \E n \in 0 .. Len(g) : SubSeq(g, 1, n) \in S

C2_EmptySentinel ==
    (pc = "done" /\ len(geohashes) = 0) => returned = "False"

C2_Witness ==
    /\ pc = "done"
    /\ len(geohashes) = 0
    /\ returned = "False"
    /\ largest_gh_size > smallest_gh_size

\* the threshold of the claim, k >= 32 * (1 - percentage_error / 100), in
\* integers: 25 * k >= 8 * (100 - percentage_error)
C3_Threshold(k) == 25 * k >= 8 * (100 - percentage_error)

\* C3 as stated, partial-merge threshold: at the end of the first cycle,
\* every incomplete sibling group of the working set, k of 32 present, has
\* been merged into its parent if and only if k >= 32 * (1 - pe / 100).
C3_AnyGroup ==
    (CycleOver /\ no_of_cycle = 0) =>
        \A parent \in ParentsOf(geohashes_set) :
            Present(parent, geohashes_set) < AlphabetSize =>
                (parent \in merged
                    <=> C3_Threshold(Present(parent, geohashes_set)))

\* C3 as amended: the same for a list whose codes all have one length that
\* is at least largest_gh_size.
C3_PartialMergeThreshold ==
    ( /\ CycleOver
      /\ no_of_cycle = 0
      /\ SinglePrecision
      /\ gh_input_level >= largest_gh_size ) =>
        \A parent \in ParentsOf(geohashes_set) :
            Present(parent, geohashes_set) < AlphabetSize =>
                (parent \in merged
                    <=> C3_Threshold(Present(parent, geohashes_set)))

\* 29 of the 32 codes under "9" with percentage_error 10: merged
C3_Witness ==
    /\ CycleOver
    /\ no_of_cycle = 0
    /\ set(geohashes) = Kids(<<9>>, 29)
    /\ gh_input_level = 2
    /\ largest_gh_size = 1
    /\ percentage_error = 10
    /\ merged = {<<9>>}

\* C4, output length bounds: when every code of the list has the length
\* gh_input_level and largest_gh_size <= gh_input_level <= smallest_gh_size,
\* every returned code has a length from largest_gh_size to
\* smallest_gh_size.
C4_OutputLengthBounds ==
    ( /\ Returned
      /\ SinglePrecision
      /\ largest_gh_size <= gh_input_level
      /\ gh_input_level <= smallest_gh_size ) =>
        \A g \in set(final_geohashes) :
            largest_gh_size <= Len(g) /\ Len(g) <= smallest_gh_size

\* C7, non-empty in, non-empty out: for a non-empty list the call returns
\* a non-empty list, whatever the other arguments.
C7_NonEmptyOut ==
    (pc = "done" /\ len(geohashes) > 0) =>
        returned = "list" /\ len(final_geohashes) > 0

\* C8, count non-increase: with forced_gh_upscale False the codes a cycle
\* has emitted are never more than the codes of the working set the cycle
\* started from, and the returned list has no more codes than the list
\* passed in has distinct codes.
C8_CountNonIncrease ==
    forced_gh_upscale = FALSE =>
        /\ pc = "for" =>
            Cardinality(processed_geohash_set) <= Cardinality(geohashes_set)
        /\ Returned =>
            len(final_geohashes) <= Cardinality(set(geohashes))

\* a second cycle that merged the 32 codes its first cycle had emitted
C8_Witness ==
    /\ CycleOver
    /\ forced_gh_upscale = FALSE
    /\ no_of_cycle = 1
    /\ Cardinality(geohashes_set) = AlphabetSize
    /\ Cardinality(processed_geohash_set) = 1

\* C9, coverage preservation: between the cycles and at the return, every
\* code of the list whose length is at least largest_gh_size is in the
\* working set, or one of its prefixes is.
C9_CoveragePreserved ==
    \A g \in set(geohashes) :
        Len(g) >= largest_gh_size =>
            /\ pc = "while" => Covered(g, geohashes_set)
            /\ Returned => Covered(g, set(final_geohashes))

\* no sibling group of the list meets the merge condition of utils.py:86-89
C10_NothingMerges ==
    \A parent \in ParentsOf(set(geohashes)) :
        /\ ~(Combinations(parent) \subseteq set(geohashes))
        /\ ~C3_Threshold(Present(parent, set(geohashes)))

\* C10, no-op bounds: when every code of the list has the length
\* largest_gh_size and no sibling group of the list meets the merge
\* condition, the returned list holds exactly the codes of the list.
C10_NoOp ==
    ( /\ pc = "done"
      /\ len(geohashes) > 0
      /\ \A g \in set(geohashes) : Len(g) = largest_gh_size
      /\ C10_NothingMerges ) =>
        returned = "list" /\ set(final_geohashes) = set(geohashes)

\* C11, forced upscale bound: with forced_gh_upscale True and
\* largest_gh_size <= smallest_gh_size, every returned code has a length of
\* at most smallest_gh_size, also when the codes of the list, all of length
\* gh_input_level, are longer than smallest_gh_size.
C11_ForcedUpscaleBound ==
    ( /\ Returned
      /\ forced_gh_upscale = TRUE
      /\ largest_gh_size <= smallest_gh_size
      /\ SinglePrecision ) =>
        \A g \in set(final_geohashes) : Len(g) <= smallest_gh_size

\* C12, invalid range is rejected: a call with
\* largest_gh_size > smallest_gh_size fails with an error and returns
\* nothing, neither a list nor False.
C12_InvalidRangeRejected ==
    largest_gh_size > smallest_gh_size => returned = "nothing"

\* C20, partial merging on the first cycle only: a parent that the first
\* cycle emits by a merge with fewer than 32 of its children in the working
\* set has at least 32 * (1 - percentage_error / 100) of them there, and a
\* parent that a later cycle emits by a merge has all 32 of its children in
\* the working set that cycle started from.
C20_PartialMergeFirstCycleOnly ==
    pc = "for" =>
        \A parent \in merged :
            /\ no_of_cycle >= 1 =>
                    Combinations(parent) \subseteq geohashes_set
            /\ ( /\ no_of_cycle = 0
                 /\ Present(parent, geohashes_set) < AlphabetSize ) =>
                    C3_Threshold(Present(parent, geohashes_set))

\* a second cycle that merged a complete group and left alone a group of 2
\* that meets the threshold
C20_Witness ==
    /\ CycleOver
    /\ no_of_cycle = 1
    /\ percentage_error <= 100
    /\ merged # {}
    /\ \E g \in geohashes_set :
            /\ Len(g) > largest_gh_size
            /\ Present(DropLast(g), geohashes_set) = 2
            /\ C3_Threshold(2)
            /\ DropLast(g) \notin merged
            /\ g \in processed_geohash_set

\* the call before the running one had the arguments of the running one
\* but for its list (1), its largest_gh_size (2) or its percentage_error (5)
SameBut(r, changed) ==
    /\ changed = 1 \/ r.geohashes = geohashes
    /\ changed = 2 \/ r.largest_gh_size = largest_gh_size
    /\ r.smallest_gh_size = smallest_gh_size
    /\ r.gh_input_level = gh_input_level
    /\ changed = 5 \/ r.percentage_error = percentage_error
    /\ r.forced_gh_upscale = forced_gh_upscale

\* C14, set semantics: the returned list has no code twice, and two calls
\* whose lists have the same distinct codes, the other arguments being the
\* same, return the same: both False, or lists of the same codes.
C14_SetSemantics ==
    /\ Returned =>
            \A g \in set(final_geohashes) : CopiesIn(g, final_geohashes) = 1
    /\ \A r \in previous :
            ( /\ pc = "done"
              /\ SameBut(r, 1)
              /\ set(r.geohashes) = set(geohashes) ) =>
                /\ returned = r.returned
                /\ set(final_geohashes) = set(r.final_geohashes)

\* largest_gh_size <= smallest_gh_size and 0 <= percentage_error <= 100, in
\* the running call and in the call before it
ValidArguments ==
    /\ largest_gh_size <= smallest_gh_size
    /\ percentage_error \in 0 .. 100
    /\ \A r \in previous :
            /\ r.largest_gh_size <= r.smallest_gh_size
            /\ r.percentage_error \in 0 .. 100

\* C15, monotonicity in largest_gh_size: of two calls that differ in
\* largest_gh_size only, on a list whose codes all have the length
\* gh_input_level and with valid arguments, the one with the lower
\* largest_gh_size does not return more codes.
C15_MonotoneInLargest ==
    \A r \in previous :
        ( /\ Returned
          /\ r.returned = "list"
          /\ SameBut(r, 2)
          /\ largest_gh_size < r.largest_gh_size
          /\ SinglePrecision
          /\ ValidArguments ) =>
            len(final_geohashes) <= len(r.final_geohashes)

\* C16, monotonicity in percentage_error: of two calls that differ in
\* percentage_error only, on a list whose codes all have the length
\* gh_input_level and with valid arguments, the one with the higher
\* percentage_error does not return more codes.
C16_MonotoneInError ==
    \A r \in previous :
        ( /\ Returned
          /\ r.returned = "list"
          /\ SameBut(r, 5)
          /\ percentage_error > r.percentage_error
          /\ SinglePrecision
          /\ ValidArguments ) =>
            len(final_geohashes) <= len(r.final_geohashes)

\* C21: the flag that stops the loop before the cycles of the cutoff are
\* done is set in a cycle only if every code of the cycle's working set has
\* length largest_gh_size: when the for loop of a cycle is over, the flag is
\* set and the cutoff is not reached, no code of the working set has
\* another length
C21_TargetReachedByAll ==
    /\ pc = "for"
    /\ todo = {}
    /\ len_desired_reached = TRUE
    /\ no_of_cycle + 1 < cutoff
    => \A geohash \in geohashes_set : Len(geohash) = largest_gh_size

\* the cycles that have been begun
CyclesBegun == IF pc = "for" THEN no_of_cycle + 1 ELSE no_of_cycle

\* the cutoff is known: the call is past utils.py:58
PastCutoff == pc \in {"while", "for"} \/ (pc = "done" /\ returned = "list")

\* C22 as stated: at most cutoff cycles are executed
C22_AtMostCutoffCycles == PastCutoff => CyclesBegun <= cutoff

\* C22: at most cutoff cycles are executed, or one cycle when the cutoff is
\* below 1, and after a cycle the loop ends exactly when the number of
\* cycles has reached the cutoff or len_desired_reached is set
C22_CycleBudget ==
    PastCutoff =>
        /\ CyclesBegun <= (IF cutoff < 1 THEN 1 ELSE cutoff)
        /\ pc = "while" /\ no_of_cycle >= 1 =>
            (flag = FALSE <=> (len_desired_reached = TRUE
                                  \/ no_of_cycle >= cutoff))

\* a call has returned after all the cycles of a cutoff of 2 or more, the
\* flag not being set
C22_Witness ==
    /\ returned = "list"
    /\ cutoff >= 2
    /\ no_of_cycle = cutoff
    /\ len_desired_reached = FALSE

\* C23, order independence: two calls with the same arguments, whatever the
\* orders in which their for loops visit the codes of the working sets,
\* return the same: both False, or lists of the same codes
C23_OrderIndependent ==
    \A r \in previous :
        (pc = "done" /\ SameBut(r, 0)) =>
            /\ returned = r.returned
            /\ set(final_geohashes) = set(r.final_geohashes)

\* the code the step of the for loop visits
Visited == CHOOSE geohash \in todo : geohash \notin todo'

\* the step of the for loop comes to utils.py:94 with its code: the code
\* has passed utils.py:74 and utils.py:78-80, and its group does not merge
ComesToElse ==
    /\ pc = "for"
    /\ todo' # todo
    /\ Len(Visited) >= largest_gh_size
    /\ DropLast(Visited) \notin geohash_processed_check
    /\ Visited \notin geohash_processed_check
    /\ ~MergeCondition(Combinations(DropLast(Visited)), geohashes_set,
                       percentage_error, no_of_cycle)

\* C24, the no-merge path: a step that processes a code whose group does not
\* merge emits exactly one code, the first smallest_gh_size characters of
\* the code if forced_gh_upscale is set and the code has at least
\* smallest_gh_size characters, and the code itself otherwise
C24_NoMergePath ==
    [][ComesToElse =>
            processed_geohash_set' =
                processed_geohash_set
                    \cup {IF forced_gh_upscale /\ Len(Visited) >= smallest_gh_size
                             THEN SubSeq(Visited, 1, smallest_gh_size)
                             ELSE Visited}]_vars

\* in the running cycle, with forced_gh_upscale set, a code longer than
\* smallest_gh_size was processed without its group merging, and its first
\* smallest_gh_size characters were emitted and not the code
C24_WitnessCut ==
    /\ pc = "for"
    /\ forced_gh_upscale = TRUE
    /\ \E geohash \in geohashes_set \ todo :
        /\ geohash \in geohash_processed_check
        /\ geohash \notin merged
        /\ Len(geohash) > smallest_gh_size
        /\ SliceTo(geohash, smallest_gh_size) \in processed_geohash_set
        /\ geohash \notin processed_geohash_set

\* the cutoff is zero or negative
NoBudget ==
    /\ largest_gh_size >= smallest_gh_size
    /\ largest_gh_size >= gh_input_level

\* C28, termination: every call of get_optimized_geohashes returns, and a
\* call on a list that is not empty with a zero or negative cutoff
\* (largest_gh_size >= max(smallest_gh_size, gh_input_level)) executes
\* exactly one cycle: it begins no second one, and it has done one when it
\* returns
C28_Terminates ==
    /\ (pc = "call") ~> (pc = "done")
    /\ [](PastCutoff /\ NoBudget =>
            /\ CyclesBegun <= 1
            /\ returned = "list" => no_of_cycle = 1)

\* a call with a negative cutoff has returned a list that is not empty
\* after one cycle
C28_Witness ==
    /\ returned = "list"
    /\ cutoff < 0
    /\ no_of_cycle = 1
    /\ len(final_geohashes) > 0

\* the codes of the list passed in and their prefixes
FromInput ==
    UNION {{SubSeq(entry, 1, n) : n \in 0 .. Len(entry)} :
                entry \in set(geohashes)}

\* C29, no invented codes: the codes a cycle emits, the working set after
\* every cycle and the returned list hold only codes of the list passed in
\* and prefixes of them
C29_NoInventedCodes ==
    LET known == FromInput
    IN  /\ pc \in {"while", "for", "done"} =>
            /\ geohashes_set \subseteq known
            /\ processed_geohash_set \subseteq known
        /\ set(final_geohashes) \subseteq known

\* a call has returned, after two cycles or more, a code of the list passed
\* in together with a code that is two characters shorter than every code
\* of the list
C29_Witness ==
    /\ returned = "list"
    /\ no_of_cycle >= 2
    /\ \E geohash \in set(final_geohashes) : geohash \in set(geohashes)
    /\ \E geohash \in set(final_geohashes) :
        \A entry \in set(geohashes) : Len(geohash) + 2 <= Len(entry)

\* no code of the set is a proper prefix of another
PrefixFree(codes) ==
    \A geohash \in codes :
        \A n \in 0 .. (Len(geohash) - 1) : SubSeq(geohash, 1, n) \notin codes

\* C30, no redundant cover: for a list whose codes all have the length
\* gh_input_level >= largest_gh_size and with forced_gh_upscale not set, the
\* working set after every cycle, and so the returned list, does not hold a
\* code together with a proper prefix of it
C30_NoRedundantCover ==
    ( /\ SinglePrecision
      /\ gh_input_level >= largest_gh_size
      /\ forced_gh_upscale = FALSE ) =>
        /\ pc \in {"while", "done"} => PrefixFree(geohashes_set)
        /\ PrefixFree(set(final_geohashes))

\* such a call has returned, after two cycles or more, codes of different
\* lengths: the parent of a group that merged and a code that did not merge
C30_Witness ==
    /\ returned = "list"
    /\ SinglePrecision
    /\ gh_input_level >= largest_gh_size
    /\ forced_gh_upscale = FALSE
    /\ no_of_cycle >= 2
    /\ merged # {}
    /\ \E a, b \in set(final_geohashes) : Len(a) < Len(b)

(***************************************************************************)
(* Properties of create_geohash_list and geohash_optimizer                 *)
(***************************************************************************)
\* geohash_optimizer has returned its DataFrame
FrameReturned == fpc = "returned"

\* the values of the column optimized_geohash_list of the returned frame
ReturnedValues ==
    [i \in 1 .. Len(objects[df]) |-> objects[df][i].optimized_geohash_list]

\* the values explode makes of what the call for row i returned
ProducedFor(i) ==
    {Exploded(applied[i])[k] : k \in 1 .. Len(Exploded(applied[i]))}

\* C13: a percentage_error that is not between 0 and 100 is rejected:
\* geohash_optimizer raises and returns no DataFrame
C13_InvalidErrorRejected ==
    percentage_error \notin 0 .. 100 => ~FrameReturned

\* C17: every row of the DataFrame geohash_optimizer returns holds one
\* geohash string in optimized_geohash_list, also when a row of the input
\* has an empty geohash_list
C17_RowsHoldOneCode ==
    FrameReturned =>
        \A i \in 1 .. Len(objects[df]) : IsCode(ReturnedValues[i])

\* C18: no two rows of the DataFrame geohash_optimizer returns carry the
\* same value of optimized_geohash_list, and a value produced for several
\* rows of the input is kept once, with the first of those rows
C18_DuplicatesDropped ==
    FrameReturned =>
        /\ \A i, j \in 1 .. Len(objects[df]) :
            ReturnedValues[i] = ReturnedValues[j] => i = j
        /\ \A r \in 1 .. Len(applied) :
            \A value \in ProducedFor(r) :
                \E i \in 1 .. Len(objects[df]) :
                    /\ ReturnedValues[i] = value
                    /\ objects[df][i].index <= r
                    /\ value \in ProducedFor(objects[df][i].index)

\* geohash_optimizer has returned, and a code was produced for two rows of
\* its input
C18_Witness ==
    /\ FrameReturned
    /\ \E r, t \in 1 .. Len(applied) :
        /\ r < t
        /\ \E value \in ProducedFor(r) \cap ProducedFor(t) : IsCode(value)

\* C19: the inputs are not mutated: every DataFrame the caller holds, the
\* gdf of the Polygeohasher among them, has the content it had when the
\* caller passed it in or got it back, and while get_optimized_geohashes
\* runs the list it was called with is the list of the caller's row
C19_InputsNotMutated ==
    /\ \A id \in DOMAIN handed : objects[id] = handed[id]
    /\ fpc = "row" =>
        geohashes = objects[gdf_with_geohashes][Current].geohash_list

\* both functions have returned, each has written a column to its copy, and
\* rows have been dropped from df in place
C19_Witness ==
    /\ FrameReturned
    /\ DOMAIN handed = {gdf, gdf_with_geohashes, df}
    /\ Len(objects[df]) < Len(explode(objects[gdf_copy],
                                      "optimized_geohash_list"))
    /\ Len(objects[df]) > 0

(***************************************************************************)
(* Properties of polygon_to_geohashes                                      *)
(***************************************************************************)
\* the cells that satisfy the precise predicate of the running call's mode
Satisfying ==
    {geo \in Cells : Accepts(polygon, geohash_to_polygon(geo), inner)}

\* the cells that pass the envelope pre-filter of the running call's mode
Passing ==
    {geo \in Cells :
        Condition(Envelope(polygon), geohash_to_polygon(geo), inner)}

Adjacent(geo, other) ==
    \E i \in 1 .. Len(Neighbors(geo)) : Neighbors(geo)[i] = other

\* the cells joined to the cells of `found` by a chain of adjacent cells
\* that stays within `allowed`
RECURSIVE Chained(_, _)
Chained(found, allowed) ==
    LET more == {geo \in allowed \ found :
                    \E near \in found : Adjacent(near, geo)}
    IN  IF more = {} THEN found ELSE Chained(found \cup more, allowed)

\* the cells joined to the centroid's cell through adjacent cells of the
\* grid, whatever they are
ConnectedToCentroid == Chained({CentroidCell(polygon)}, Cells)

\* the cells joined to the centroid's cell through cells that pass the
\* pre-filter, the centroid's cell being one of them
ConnectedThroughPassing ==
    IF CentroidCell(polygon) \in Passing
        THEN Chained({CentroidCell(polygon)}, Passing)
        ELSE {}

\* C5 as stated, rasterizer exactness: in either mode, when every cell that
\* satisfies the mode's precise predicate is connected through adjacency to
\* the cell of the centroid, the call returns exactly the satisfying cells.
C5_ExactWhenAdjacent ==
    (ppc = "returned" /\ Satisfying \subseteq ConnectedToCentroid)
        => results[inner] = Satisfying

\* C5 as amended: the same when the chain of adjacent cells from the cell
\* of the centroid to each satisfying cell consists of cells that pass the
\* mode's envelope pre-filter, the cell of the centroid included.
C5_ExactWhenPassing ==
    (ppc = "returned" /\ Satisfying \subseteq ConnectedThroughPassing)
        => results[inner] = Satisfying

\* a call with inner=True whose centroid cell was rejected and that went on
\* from it to accept another cell
C5_Witness ==
    /\ ppc = "returned"
    /\ inner = TRUE
    /\ CentroidCell(polygon) \in outer_geohashes
    /\ Satisfying # {}
    /\ Satisfying \subseteq ConnectedThroughPassing
    /\ results[TRUE] = Satisfying

\* C6, inner within outer: for one polygon at one precision, the set the
\* call with inner=True returns is a subset of the set the call with
\* inner=False returns, and so has no more codes.
C6_InnerWithinOuter ==
    (ppc = "returned" /\ inner = FALSE) =>
        /\ results[TRUE] \subseteq results[FALSE]
        /\ Cardinality(results[TRUE]) <= Cardinality(results[FALSE])

C6_Witness ==
    /\ ppc = "returned"
    /\ inner = FALSE
    /\ results[TRUE] # {}
    /\ results[TRUE] # results[FALSE]
    /\ results[TRUE] \subseteq results[FALSE]

\* the loop of polygon_to_geohashes pops a code in this step
Pops == ppc = "loop" /\ testing_geohashes # << >> /\ ppc' = "loop"

\* C25, the visited sets: the accepted and the rejected codes are disjoint
\* at every step, no code leaves its set, and a popped code that is in one
\* of the sets is neither classified nor expanded again: the sets stay as
\* they are and nothing is put on the queue
C25_VisitedOnce ==
    /\ [](inner_geohashes \cap outer_geohashes = {})
    /\ [][Pops =>
            /\ inner_geohashes \subseteq inner_geohashes'
            /\ outer_geohashes \subseteq outer_geohashes'
            /\ Head(testing_geohashes) \in inner_geohashes \cup outer_geohashes
                => /\ inner_geohashes' = inner_geohashes
                   /\ outer_geohashes' = outer_geohashes
                   /\ testing_geohashes' = Tail(testing_geohashes)]_vars

\* a code that was put on the queue more than once comes off it after it has
\* been classified, an accepted code and a rejected one being there
C25_Witness ==
    /\ ppc = "loop"
    /\ testing_geohashes # << >>
    /\ Head(testing_geohashes) \in inner_geohashes \cup outer_geohashes
    /\ inner_geohashes # {}
    /\ outer_geohashes # {}

\* a code fails the pre-filter: the envelope does not contain its box
\* (inner=True), or does not intersect it (inner=False)
Fails(current_geohash) ==
    LET box == geohash_to_polygon(current_geohash)
    IN  IF inner
            THEN ~(box \subseteq envelope)
            ELSE ~\E p \in envelope, q \in box :
                    Abs(p[1] - q[1]) <= 1 /\ Abs(p[2] - q[2]) <= 1

\* the popped code fails the pre-filter
FailsPreFilter == Fails(Head(testing_geohashes))

\* C26, the pre-filter: a popped code that fails the pre-filter is added to
\* neither set and none of its neighbours is put on the queue; a code that
\* is added to a set or expanded has passed the pre-filter
C26_PreFilter ==
    [][Pops =>
        /\ FailsPreFilter =>
            /\ inner_geohashes' = inner_geohashes
            /\ outer_geohashes' = outer_geohashes
            /\ testing_geohashes' = Tail(testing_geohashes)
        /\ ( \/ inner_geohashes' # inner_geohashes
             \/ outer_geohashes' # outer_geohashes
             \/ testing_geohashes' # Tail(testing_geohashes) )
                => ~FailsPreFilter]_vars

\* the call has returned, and a neighbour of a classified code, which was
\* put on the queue and popped, fails the pre-filter and is in neither set
C26_Witness ==
    /\ ppc = "returned"
    /\ \E current_geohash \in inner_geohashes \cup outer_geohashes :
        \E i \in 1 .. Len(Neighbors(current_geohash)) :
            /\ Fails(Neighbors(current_geohash)[i])
            /\ Neighbors(current_geohash)[i]
                    \notin inner_geohashes \cup outer_geohashes

\* C27, termination: a call of polygon_to_geohashes that is in its loop
\* comes to an empty queue and returns, and what it returns is the set of
\* the accepted codes
C27_Terminates ==
    /\ (ppc = "loop") ~> (ppc = "returned")
    /\ [](ppc = "returned" => results[inner] = inner_geohashes)

\* a call has returned after its loop has classified every cell of the grid
\* and accepted some of them
C27_Witness ==
    /\ ppc = "returned"
    /\ testing_geohashes = << >>
    /\ inner_geohashes \cup outer_geohashes = Cells
    /\ inner_geohashes # {}
    /\ outer_geohashes # {}

====
